---- MODULE Spec2Model ----
(***************************************************************************)
(* chronoquant: the incremental synchronizer of database_codes/data_sync.py *)
(* (sync_data) run against a shared SQLite table and the Binance client.    *)
(*                                                                          *)
(* Time.  Every epoch-millisecond value of the program is written here as   *)
(* its distance from T0 = 1483228800000 ms = 2017-01-01T00:00:00Z, the      *)
(* fallback start of data_sync.py:53 (TLC integers are 32 bits wide and     *)
(* cannot hold the absolute value).  T0 is a multiple of 60000, so the      *)
(* program's arithmetic on these values (+ 60_000, % 60_000, -, >=) gives   *)
(* the same results on the distances as on the absolute values.             *)
(*                                                                          *)
(* SQL NULL / Python None / float NaN are the empty tuple <<>>; a present   *)
(* value v is the one-element tuple <<v>>.                                  *)
(***************************************************************************)
EXTENDS FiniteSets, Integers, Sequences, TLC

\* ------------------------------------------------------------------------
\* Bounds of the model
\* ------------------------------------------------------------------------
\* number of stored rows calculate_target_percentiles is run against
MaxRows == 3
\* largest rolling window passed to calculate_target_percentiles
MaxWindow == 3
\* number of steps the exchange clock may take
MaxTicks == 3
\* number of candle rows the exchange may publish
MaxKlines == 2

\* ------------------------------------------------------------------------
\* Program constants
\* ------------------------------------------------------------------------
\* data_sync.py:56 and :62, the length of a 1-minute candle in ms
Interval == 60000
\* data_sync.py:53, datetime(2017, 1, 1, tzinfo=utc) in ms, as distance from T0
EpochFloor == 0
\* data_sync.py:94, pd.Timedelta(hours=2)
LocalOffsetHours == 2

NULL == <<>>
\* the sync_data invocations that may be in flight at once
Runs == {1, 2}

VARIABLES
    store,      \* the rows of table bchusdt_1m, in rowid order
    klines,     \* the candle rows the exchange serves, in publication order
    now,        \* the exchange server clock, in ms
    pc,         \* position of each sync_data invocation
    row,        \* local `row[0]` of data_sync.py:48
    start_ms,   \* local start_ms
    server_ms,  \* local server_ms
    end_ms,     \* local end_ms
    records,    \* local records (data_sync.py:109)
    result,     \* how the invocation ended
    log,        \* the collaborator calls the invocation has made so far
    quiet,      \* the exchange has offered nothing new since the invocation read the server time
    solo,       \* the invocation began right after a completed one and nothing has happened beside it
    prev,       \* the store as the latest normally completed invocation left it
    normal,     \* every candle fetch so far returned the whole requested window
    summary,    \* the summary the invocation printed (data_sync.py:125-126)
    written,    \* the number of rows the invocation's insert added to the table
    alone,      \* no other invocation has been in flight beside this one
    calc        \* the call of calculate_target_percentiles (prep_target.py)

vars == <<store, klines, now, pc, row, start_ms, server_ms, end_ms, records,
          result, log, quiet, solo, prev, normal, summary, written, alone, calc>>

\* what a step of the exchange or a failing call leaves alone
reports == <<summary, written, alone, calc>>

\* ------------------------------------------------------------------------
\* Raw exchange rows: numeric fields are text, a text is a tuple of characters
\* ------------------------------------------------------------------------
Digits == {"0", "1", "2", "3", "4", "5", "6", "7", "8", "9"}

DigitVal(c) ==
    CASE c = "0" -> 0 [] c = "1" -> 1 [] c = "2" -> 2 [] c = "3" -> 3
      [] c = "4" -> 4 [] c = "5" -> 5 [] c = "6" -> 6 [] c = "7" -> 7
      [] c = "8" -> 8 [] c = "9" -> 9

\* the two field tuples the exchange may attach to a candle: a clean one, and
\* one with other numbers and a close that is not numeric
RawVariants ==
    { [open |-> <<"1", "0">>, high |-> <<"1", "5">>, low |-> <<"9">>,
       close |-> <<"1", "2">>, volume |-> <<"7">>],
      [open |-> <<"1", "1">>, high |-> <<"1", "6">>, low |-> <<"8">>,
       close |-> <<"n", "a">>, volume |-> <<"3">>] }

\* the clock starts half a minute after T0, advances five sixths of a minute
\* at a time, and stops at MaxNow
FirstNow == Interval \div 2
TickStep == 5 * (Interval \div 6)
MaxNow == FirstNow + MaxTicks * TickStep

\* the open times a candle of the modelled period can have
CandleTimes == { m * Interval : m \in 0..(MaxNow \div Interval) }

RawRows ==
    { [open_time |-> k, open |-> v.open, high |-> v.high, low |-> v.low,
       close |-> v.close, volume |-> v.volume] : k \in CandleTimes, v \in RawVariants }

\* ------------------------------------------------------------------------
\* Pure functions of sync_data
\* ------------------------------------------------------------------------
RECURSIVE DecimalValue(_)
DecimalValue(text) ==
    IF text = <<>> THEN 0
    ELSE 10 * DecimalValue(SubSeq(text, 1, Len(text) - 1)) + DigitVal(text[Len(text)])

\* pd.to_numeric(..., errors="coerce") on one cell: the number, or NaN
ToNumeric(text) ==
    IF text # <<>> /\ \A i \in 1..Len(text) : text[i] \in Digits
    THEN <<DecimalValue(text)>>
    ELSE NULL

\* (dt_utc + 2h).dt.floor("min").strftime("%Y-%m-%d %H:%M"): the fields of the
\* formatted string, the day counted from 2017-01-01
OpenTimeDisplay(ms) ==
    LET total == (ms + LocalOffsetHours * 60 * Interval) \div Interval
    IN  <<total \div 1440, (total % 1440) \div 60, total % 60>>

\* one raw row to one record of `records`
Normalize(raw) ==
    [open_time_ms |-> raw.open_time,
     open_time    |-> OpenTimeDisplay(raw.open_time),
     open         |-> ToNumeric(raw.open),
     high         |-> ToNumeric(raw.high),
     low          |-> ToNumeric(raw.low),
     close        |-> ToNumeric(raw.close),
     volume       |-> ToNumeric(raw.volume)]

\* variant of NormalizeAll: rows with a NaN are dropped (dropna)
NormalizeAllDropNa(raw_data) ==
    SelectSeq([i \in 1..Len(raw_data) |-> Normalize(raw_data[i])],
              LAMBDA rec : /\ rec.open # NULL /\ rec.high # NULL /\ rec.low # NULL
                           /\ rec.close # NULL /\ rec.volume # NULL)

\* lines 80-109: every raw row to a record, in order
NormalizeAll(raw_data) == [i \in 1..Len(raw_data) |-> Normalize(raw_data[i])]

\* variant of MaxKey: SELECT MIN(open_time_ms)
RECURSIVE MinKeyInstead(_)
MinKeyInstead(table) ==
    IF table = <<>> THEN NULL
    ELSE LET rest == MinKeyInstead(SubSeq(table, 1, Len(table) - 1))
             last == table[Len(table)].open_time_ms
         IN  IF rest = NULL \/ last < rest[1] THEN <<last>> ELSE rest

\* SELECT MAX(open_time_ms) FROM table: NULL on an empty table
RECURSIVE MaxKey(_)
MaxKey(table) ==
    IF table = <<>> THEN NULL
    ELSE LET rest == MaxKey(SubSeq(table, 1, Len(table) - 1))
             last == table[Len(table)].open_time_ms
         IN  IF rest = NULL \/ rest[1] < last THEN <<last>> ELSE rest

\* variants of StartMs: the step to the next minute left out; the fallback
\* moved by one minute; one minute skipped after the last stored candle
StartMsNoStep(row0) ==
    IF row0 = NULL THEN EpochFloor ELSE row0[1]

StartMsShiftedFloor(row0) ==
    IF row0 = NULL THEN EpochFloor + Interval ELSE row0[1] + Interval

StartMsSkipsOne(row0) ==
    IF row0 = NULL THEN EpochFloor ELSE row0[1] + 2 * Interval

\* the if/else that sets start_ms
StartMs(row0) ==
    IF row0 = NULL THEN EpochFloor ELSE row0[1] + Interval

\* variant of EndMs: the server time is not floored
EndMsNoFloor(server) == server

\* floor to full minute
EndMs(server) == server - (server % Interval)

\* variant of NoNewData: strict comparison
NoNewDataStrict(start, end) == start > end

\* the early return "No new data to sync."
NoNewData(start, end) == start >= end

\* variant of NoDataReturned: the check left out
NoDataReturnedUnchecked(raw_data) == FALSE

\* the early return "No data returned by Binance."
NoDataReturned(raw_data) == raw_data = <<>>

\* variants of InsertOrIgnore: a plain INSERT into a table without the key
\* constraint; INSERT OR REPLACE
InsertUnkeyed(table, rec) == Append(table, rec)

InsertOrReplace(table, rec) ==
    IF \E i \in 1..Len(table) : table[i].open_time_ms = rec.open_time_ms
    THEN [i \in 1..Len(table) |->
            IF table[i].open_time_ms = rec.open_time_ms THEN rec ELSE table[i]]
    ELSE Append(table, rec)

\* INSERT OR IGNORE of one record: open_time_ms is the table's primary key
InsertOrIgnore(table, rec) ==
    IF \E i \in 1..Len(table) : table[i].open_time_ms = rec.open_time_ms
    THEN table
    ELSE Append(table, rec)

\* variants of ExecuteMany: only the first record is executed; the statement
\* stops at the first record whose key is already stored
ExecuteFirstOnly(table, recs) ==
    IF recs = <<>> THEN table ELSE InsertOrIgnore(table, Head(recs))

RECURSIVE ExecuteUntilConflict(_, _)
ExecuteUntilConflict(table, recs) ==
    IF recs = <<>> THEN table
    ELSE IF \E i \in 1..Len(table) : table[i].open_time_ms = Head(recs).open_time_ms
         THEN table
         ELSE ExecuteUntilConflict(Append(table, Head(recs)), Tail(recs))

\* variant of ExecuteMany: a record is written only when its key lies
\* after every stored key
RECURSIVE ExecuteAboveMax(_, _)
ExecuteAboveMax(table, recs) ==
    IF recs = <<>> THEN table
    ELSE IF \E i \in 1..Len(table) : table[i].open_time_ms >= Head(recs).open_time_ms
         THEN ExecuteAboveMax(table, Tail(recs))
         ELSE ExecuteAboveMax(Append(table, Head(recs)), Tail(recs))

\* cursor.executemany over records, in order
RECURSIVE ExecuteMany(_, _)
ExecuteMany(table, recs) ==
    IF recs = <<>> THEN table
    ELSE ExecuteMany(InsertOrIgnore(table, Head(recs)), Tail(recs))

\* ------------------------------------------------------------------------
\* The exchange collaborator
\* ------------------------------------------------------------------------
InWindow(k, start, end) == start <= k /\ k < end

\* get_historical_klines(symbol, interval, start_ms, end_ms)
GetHistoricalKlines(served, start, end) ==
    SelectSeq(served, LAMBDA r : InWindow(r.open_time, start, end))

\* does the exchange hold a row for every candle of the window
WholeWindow(served, start, end) ==
    \A k \in CandleTimes :
        InWindow(k, start, end) => \E i \in 1..Len(served) : served[i].open_time = k

NoPrev == [valid |-> FALSE, store |-> <<>>]

\* ------------------------------------------------------------------------
\* The summary of a run
\* ------------------------------------------------------------------------
\* string comparison of two formatted open_time values: the format is fixed
\* width and zero padded, so it compares day, then hour, then minute
DisplayLeq(a, b) ==
    \/ a[1] < b[1]
    \/ a[1] = b[1] /\ a[2] < b[2]
    \/ a[1] = b[1] /\ a[2] = b[2] /\ a[3] <= b[3]

\* df['open_time'].min() and .max()
MinOpenTime(recs) ==
    CHOOSE t \in { recs[i].open_time : i \in 1..Len(recs) } :
        \A i \in 1..Len(recs) : DisplayLeq(t, recs[i].open_time)

MaxOpenTime(recs) ==
    CHOOSE t \in { recs[i].open_time : i \in 1..Len(recs) } :
        \A i \in 1..Len(recs) : DisplayLeq(recs[i].open_time, t)

\* "Inserted rows: N" and "Range inserted: min -> max"
Summary(recs) ==
    [count |-> Len(recs), first |-> MinOpenTime(recs), last |-> MaxOpenTime(recs)]

\* ------------------------------------------------------------------------
\* calculate_target_percentiles (prep_target.py)
\* ------------------------------------------------------------------------
\* no call of calculate_target_percentiles has been made
CalcIdle ==
    [pc |-> "idle", from |-> <<0, 0, 0>>, to |-> <<0, 0, 0>>, window |-> 0,
     df |-> <<>>, rolling_max |-> <<>>, ratio |-> <<>>, outcome |-> "none",
     table |-> NULL]

Reverse(seq) == [i \in 1..Len(seq) |-> seq[Len(seq) + 1 - i]]

\* SELECT open_time, close FROM table WHERE open_time BETWEEN ? AND ?
\* the rows of a scan in rowid order
SelectRange(table, from, to) ==
    LET hit == SelectSeq(table, LAMBDA rec : /\ DisplayLeq(from, rec.open_time)
                                             /\ DisplayLeq(rec.open_time, to))
    IN  [i \in 1..Len(hit) |-> [open_time |-> hit[i].open_time, close |-> hit[i].close]]

\* the statement has no ORDER BY, so SQLite leaves the order of its rows
\* undefined: a table scan runs by ascending rowid, or by descending rowid
\* (as under PRAGMA reverse_unordered_selects)
ScanOrders == {"ascending_rowid", "descending_rowid"}

ReadSqlQuery(table, from, to, order) ==
    IF order = "ascending_rowid"
    THEN SelectRange(table, from, to)
    ELSE Reverse(SelectRange(table, from, to))

\* variant of EmptyFrame: the check left out
EmptyFrameUnchecked(df) == FALSE

\* df.empty
EmptyFrame(df) == df = <<>>

\* the maximum of the numbers among closes[lo..hi], NaN when there is none
RECURSIVE MaxOver(_, _, _, _)
MaxOver(closes, lo, hi, best) ==
    IF lo > hi THEN best
    ELSE MaxOver(closes, lo + 1, hi,
                 IF closes[lo] = NULL THEN best
                 ELSE IF best = NULL \/ best[1] < closes[lo][1] THEN closes[lo]
                 ELSE best)

\* variant of RollingMax: the window reaches one row further back
RollingMaxOneMore(closes, window) ==
    [i \in 1..Len(closes) |->
        MaxOver(closes, IF i - window < 1 THEN 1 ELSE i - window, i, NULL)]

\* df["close"].rolling(window=window, min_periods=1).max()
RollingMax(closes, window) ==
    [i \in 1..Len(closes) |->
        MaxOver(closes, IF i - window + 1 < 1 THEN 1 ELSE i - window + 1, i, NULL)]

\* the ratios are kept to four decimal places
RatioScale == 10000

\* df["rolling_max"] / df["close"], element by element; NaN where either is
Ratio(rolling_max, closes) ==
    [i \in 1..Len(closes) |->
        IF rolling_max[i] = NULL \/ closes[i] = NULL THEN NULL
        ELSE <<(rolling_max[i][1] * RatioScale) \div closes[i][1]>>]

\* the numbers of a column in ascending order (describe skips NaN)
RECURSIVE InsertSorted(_, _)
InsertSorted(sorted, v) ==
    IF sorted = <<>> THEN <<v>>
    ELSE IF v <= Head(sorted) THEN <<v>> \o sorted
    ELSE <<Head(sorted)>> \o InsertSorted(Tail(sorted), v)

RECURSIVE SortedNumbers(_)
SortedNumbers(column) ==
    IF column = <<>> THEN <<>>
    ELSE LET rest == SortedNumbers(Tail(column))
         IN  IF Head(column) = NULL THEN rest ELSE InsertSorted(rest, Head(column)[1])

\* the percentile with linear interpolation between closest ranks
Percentile(sorted, percent) ==
    IF sorted = <<>> THEN NULL
    ELSE LET pos  == (Len(sorted) - 1) * percent
             lo   == pos \div 100 + 1
             frac == pos % 100
             hi   == IF lo < Len(sorted) THEN lo + 1 ELSE lo
         IN  <<sorted[lo] + ((sorted[hi] - sorted[lo]) * frac) \div 100>>

\* describe(percentiles=[0.5, 0.75, 0.9]) reduced to the row p50, p75, p90
Describe(ratio) ==
    LET sorted == SortedNumbers(ratio)
    IN  [p50 |-> Percentile(sorted, 50), p75 |-> Percentile(sorted, 75),
         p90 |-> Percentile(sorted, 90)]

InFlight(r) == pc[r] \in {"server_time", "klines", "insert"}

\* sync_data can be invoked: never invoked yet, or its last invocation is over
Callable(r) == pc[r] \in {"idle", "done"}

\* ------------------------------------------------------------------------
\* Initial state
\* ------------------------------------------------------------------------
Init ==
    /\ store = <<>>
    /\ klines = <<>>
    /\ now = FirstNow
    /\ pc = [r \in Runs |-> "idle"]
    /\ row = [r \in Runs |-> NULL]
    /\ start_ms = [r \in Runs |-> NULL]
    /\ server_ms = [r \in Runs |-> NULL]
    /\ end_ms = [r \in Runs |-> NULL]
    /\ records = [r \in Runs |-> <<>>]
    /\ result = [r \in Runs |-> "none"]
    /\ log = [r \in Runs |-> <<>>]
    /\ quiet = [r \in Runs |-> FALSE]
    /\ solo = [r \in Runs |-> FALSE]
    /\ prev = NoPrev
    /\ normal = TRUE
    /\ summary = [r \in Runs |-> NULL]
    /\ written = [r \in Runs |-> 0]
    /\ alone = [r \in Runs |-> FALSE]
    /\ calc = CalcIdle

\* ------------------------------------------------------------------------
\* sync_data, one action per collaborator call
\* ------------------------------------------------------------------------
Others(r) == Runs \ {r}

\* what a normally returning invocation leaves behind for the next one
Completed(table, undisturbed) ==
    IF undisturbed THEN [valid |-> TRUE, store |-> table] ELSE NoPrev

\* data_sync.py:45-56: read the maximum key and compute start_ms
ReadMax(r) ==
    /\ Callable(r)
    /\ row' = [row EXCEPT ![r] = MaxKey(store)]
    /\ start_ms' = [start_ms EXCEPT ![r] = StartMs(MaxKey(store))]
    /\ pc' = [pc EXCEPT ![r] = "server_time"]
    /\ log' = [log EXCEPT ![r] = <<"max_key">>]
    /\ server_ms' = [server_ms EXCEPT ![r] = NULL]
    /\ end_ms' = [end_ms EXCEPT ![r] = NULL]
    /\ records' = [records EXCEPT ![r] = <<>>]
    /\ result' = [result EXCEPT ![r] = "none"]
    /\ quiet' = [quiet EXCEPT ![r] = FALSE]
    /\ solo' = [q \in Runs |->
                  IF q = r THEN prev.valid /\ \A o \in Others(r) : ~InFlight(o)
                  ELSE FALSE]
    /\ summary' = [summary EXCEPT ![r] = NULL]
    /\ written' = [written EXCEPT ![r] = 0]
    /\ alone' = [q \in Runs |->
                   IF q = r THEN \A o \in Others(r) : ~InFlight(o)
                   ELSE IF InFlight(q) THEN FALSE ELSE alone[q]]
    /\ UNCHANGED <<store, klines, now, prev, normal, calc>>

\* data_sync.py:45-49 raising (the store cannot be opened or read)
ReadMaxFail(r) ==
    /\ Callable(r)
    /\ pc' = [pc EXCEPT ![r] = "done"]
    /\ result' = [result EXCEPT ![r] = "error_store"]
    /\ row' = [row EXCEPT ![r] = NULL]
    /\ start_ms' = [start_ms EXCEPT ![r] = NULL]
    /\ server_ms' = [server_ms EXCEPT ![r] = NULL]
    /\ end_ms' = [end_ms EXCEPT ![r] = NULL]
    /\ records' = [records EXCEPT ![r] = <<>>]
    /\ log' = [log EXCEPT ![r] = <<>>]
    /\ quiet' = [quiet EXCEPT ![r] = FALSE]
    /\ solo' = [q \in Runs |-> FALSE]
    /\ prev' = NoPrev
    /\ summary' = [summary EXCEPT ![r] = NULL]
    /\ written' = [written EXCEPT ![r] = 0]
    /\ alone' = [alone EXCEPT ![r] = FALSE]
    /\ UNCHANGED <<store, klines, now, normal, calc>>

\* data_sync.py:61-66: server time, end_ms, and the early return
GetServerTime(r) ==
    /\ pc[r] = "server_time"
    /\ server_ms' = [server_ms EXCEPT ![r] = now]
    /\ end_ms' = [end_ms EXCEPT ![r] = EndMs(now)]
    /\ log' = [log EXCEPT ![r] = Append(@, "server_time")]
    /\ quiet' = [quiet EXCEPT ![r] = TRUE]
    /\ IF NoNewData(start_ms[r], EndMs(now))
       THEN /\ pc' = [pc EXCEPT ![r] = "done"]
            /\ result' = [result EXCEPT ![r] = "no_new_data"]
            /\ prev' = Completed(store, TRUE)
       ELSE /\ pc' = [pc EXCEPT ![r] = "klines"]
            /\ UNCHANGED <<result, prev>>
    /\ UNCHANGED <<store, klines, now, row, start_ms, records, solo, normal>>
    /\ UNCHANGED reports

\* data_sync.py:61 raising
ServerTimeFail(r) ==
    /\ pc[r] = "server_time"
    /\ pc' = [pc EXCEPT ![r] = "done"]
    /\ result' = [result EXCEPT ![r] = "error_server_time"]
    /\ prev' = NoPrev
    /\ UNCHANGED <<store, klines, now, row, start_ms, server_ms, end_ms,
                   records, log, quiet, solo, normal>>
    /\ UNCHANGED reports

\* data_sync.py:71-109: fetch, the early return, and the normalisation
FetchKlines(r) ==
    LET raw_data == GetHistoricalKlines(klines, start_ms[r], end_ms[r])
    IN  /\ pc[r] = "klines"
        /\ log' = [log EXCEPT ![r] = Append(@, "klines")]
        /\ normal' = (normal /\ WholeWindow(klines, start_ms[r], end_ms[r]))
        /\ IF NoDataReturned(raw_data)
           THEN /\ pc' = [pc EXCEPT ![r] = "done"]
                /\ result' = [result EXCEPT ![r] = "no_data"]
                /\ prev' = Completed(store, quiet[r])
                /\ UNCHANGED records
           ELSE /\ pc' = [pc EXCEPT ![r] = "insert"]
                /\ records' = [records EXCEPT ![r] = NormalizeAll(raw_data)]
                /\ UNCHANGED <<result, prev>>
        /\ UNCHANGED <<store, klines, now, row, start_ms, server_ms, end_ms,
                       quiet, solo>>
        /\ UNCHANGED reports

\* variant of KlinesFail: the rows received before the failure are written
KlinesFailAfterWrite(r) ==
    /\ pc[r] = "klines"
    /\ pc' = [pc EXCEPT ![r] = "done"]
    /\ result' = [result EXCEPT ![r] = "error_klines"]
    /\ store' = ExecuteMany(store, NormalizeAll(
                    GetHistoricalKlines(klines, start_ms[r], end_ms[r])))
    /\ prev' = NoPrev
    /\ UNCHANGED <<klines, now, row, start_ms, server_ms, end_ms,
                   records, log, quiet, solo, normal>>
    /\ UNCHANGED reports

\* data_sync.py:71 raising
KlinesFail(r) ==
    /\ pc[r] = "klines"
    /\ pc' = [pc EXCEPT ![r] = "done"]
    /\ result' = [result EXCEPT ![r] = "error_klines"]
    /\ prev' = NoPrev
    /\ UNCHANGED <<store, klines, now, row, start_ms, server_ms, end_ms,
                   records, log, quiet, solo, normal>>
    /\ UNCHANGED reports

\* variant of Insert: every row is committed on its own
InsertRowByRow(r) ==
    /\ pc[r] = "insert"
    /\ store' = InsertOrIgnore(store, Head(records[r]))
    /\ written' = [written EXCEPT ![r] =
                      @ + Len(InsertOrIgnore(store, Head(records[r]))) - Len(store)]
    /\ IF Len(records[r]) = 1
       THEN /\ log' = [log EXCEPT ![r] = Append(@, "insert")]
            /\ pc' = [pc EXCEPT ![r] = "done"]
            /\ result' = [result EXCEPT ![r] = "inserted"]
            /\ prev' = NoPrev
            /\ UNCHANGED records
       ELSE /\ records' = [records EXCEPT ![r] = Tail(@)]
            /\ UNCHANGED <<log, pc, result, prev>>
    /\ UNCHANGED <<klines, now, row, start_ms, server_ms, end_ms,
                   quiet, solo, normal, summary, alone, calc>>

\* variant of Insert: the summary counts the rows the statement added
InsertReportingRowcount(r) ==
    /\ pc[r] = "insert"
    /\ store' = ExecuteMany(store, records[r])
    /\ log' = [log EXCEPT ![r] = Append(@, "insert")]
    /\ pc' = [pc EXCEPT ![r] = "done"]
    /\ result' = [result EXCEPT ![r] = "inserted"]
    /\ prev' = Completed(ExecuteMany(store, records[r]), quiet[r])
    /\ summary' = [summary EXCEPT ![r] =
                      <<[Summary(records[r]) EXCEPT
                           !.count = Len(ExecuteMany(store, records[r])) - Len(store)]>>]
    /\ written' = [written EXCEPT ![r] =
                      Len(ExecuteMany(store, records[r])) - Len(store)]
    /\ UNCHANGED <<klines, now, row, start_ms, server_ms, end_ms, records,
                   quiet, solo, normal, alone, calc>>

\* data_sync.py:107-126: executemany, commit, and the summary
Insert(r) ==
    /\ pc[r] = "insert"
    /\ store' = ExecuteMany(store, records[r])
    /\ log' = [log EXCEPT ![r] = Append(@, "insert")]
    /\ pc' = [pc EXCEPT ![r] = "done"]
    /\ result' = [result EXCEPT ![r] = "inserted"]
    /\ prev' = Completed(ExecuteMany(store, records[r]), quiet[r])
    /\ summary' = [summary EXCEPT ![r] = <<Summary(records[r])>>]
    /\ written' = [written EXCEPT ![r] =
                      Len(ExecuteMany(store, records[r])) - Len(store)]
    /\ UNCHANGED <<klines, now, row, start_ms, server_ms, end_ms, records,
                   quiet, solo, normal, alone, calc>>

\* data_sync.py:107-119 raising before the commit: the transaction is dropped
InsertFail(r) ==
    /\ pc[r] = "insert"
    /\ pc' = [pc EXCEPT ![r] = "done"]
    /\ result' = [result EXCEPT ![r] = "error_store"]
    /\ prev' = NoPrev
    /\ UNCHANGED <<store, klines, now, row, start_ms, server_ms, end_ms,
                   records, log, quiet, solo, normal>>
    /\ UNCHANGED reports

\* ------------------------------------------------------------------------
\* The exchange: its clock advances, it publishes candle rows
\* ------------------------------------------------------------------------
\* the exchange now offers something it did not offer before
Disturbed ==
    /\ quiet' = [r \in Runs |-> FALSE]
    /\ solo' = [r \in Runs |-> FALSE]
    /\ prev' = NoPrev

Tick ==
    /\ now < MaxNow
    /\ now' = now + TickStep
    /\ IF EndMs(now + TickStep) # EndMs(now)
       THEN Disturbed
       ELSE UNCHANGED <<quiet, solo, prev>>
    /\ UNCHANGED <<store, klines, pc, row, start_ms, server_ms, end_ms,
                   records, result, log, normal>>
    /\ UNCHANGED reports

Publish(raw) ==
    /\ Len(klines) < MaxKlines
    /\ raw.open_time <= now
    /\ klines # <<>> => klines[Len(klines)].open_time <= raw.open_time
    /\ klines' = Append(klines, raw)
    /\ Disturbed
    /\ UNCHANGED <<store, now, pc, row, start_ms, server_ms, end_ms,
                   records, result, log, normal>>
    /\ UNCHANGED reports

Next ==
    \/ \E r \in Runs : ReadMax(r)
    \/ \E r \in Runs : ReadMaxFail(r)
    \/ \E r \in Runs : GetServerTime(r)
    \/ \E r \in Runs : ServerTimeFail(r)
    \/ \E r \in Runs : FetchKlines(r)
    \/ \E r \in Runs : KlinesFail(r)
    \/ \E r \in Runs : Insert(r)
    \/ \E r \in Runs : InsertFail(r)
    \/ Tick
    \/ \E raw \in RawRows : Publish(raw)

Spec == Init /\ [][Next]_vars

\* ------------------------------------------------------------------------
\* calculate_target_percentiles called on a stored table
\* ------------------------------------------------------------------------
\* the close texts of the stored candles, and the closes of the worked
\* example 10, 12, 11, 15, 9
CloseTexts == { <<"9">>, <<"1", "2">>, <<"1", "5">>, <<"n", "a">> }

ExampleCloses == << <<"1", "0">>, <<"1", "2">>, <<"1", "1">>, <<"1", "5">>, <<"9">> >>

\* the first stored candle opens at 02:58 local time, so that the stored
\* minutes run over the hour
CalcFirstKey == 58 * Interval

\* the table sync_data stores from consecutive candles with these closes
TableOf(closes) ==
    NormalizeAll([i \in 1..Len(closes) |->
        [open_time |-> CalcFirstKey + (i - 1) * Interval, open |-> <<"1", "0">>,
         high |-> <<"1", "5">>, low |-> <<"9">>, close |-> closes[i],
         volume |-> <<"7">>]])

CalcTables ==
    { TableOf(closes) : closes \in UNION { [1..n -> CloseTexts] : n \in 0..MaxRows } }
        \cup { TableOf(ExampleCloses) }

\* the time bounds a caller passes
CalcTimes ==
    { OpenTimeDisplay(CalcFirstKey + m * Interval) : m \in 0..(Len(ExampleCloses) - 1) }

syncvars == <<store, klines, now, pc, row, start_ms, server_ms, end_ms, records,
              result, log, quiet, solo, prev, normal, summary, written, alone>>

\* prep_target.py:34-44: the query and the empty check
CalcQuery(from, to, window, order) ==
    LET df == ReadSqlQuery(store, from, to, order)
    IN  /\ calc.pc \in {"idle", "done"}
        /\ calc' = [CalcIdle EXCEPT
                        !.from = from, !.to = to, !.window = window, !.df = df,
                        !.pc = IF EmptyFrame(df) THEN "done" ELSE "rolling",
                        !.outcome = IF EmptyFrame(df) THEN "error_empty" ELSE "none"]
        /\ UNCHANGED syncvars

\* prep_target.py:49-50: the rolling maximum and the ratio
CalcRolling ==
    LET closes      == [i \in 1..Len(calc.df) |-> calc.df[i].close]
        rolling_max == RollingMax(closes, calc.window)
    IN  /\ calc.pc = "rolling"
        /\ calc' = [calc EXCEPT !.pc = "describe",
                                !.rolling_max = rolling_max,
                                !.ratio = Ratio(rolling_max, closes)]
        /\ UNCHANGED syncvars

\* prep_target.py:55-62: the percentiles and the returned table
CalcDescribe ==
    /\ calc.pc = "describe"
    /\ calc' = [calc EXCEPT !.pc = "done", !.outcome = "table",
                            !.table = <<Describe(calc.ratio)>>]
    /\ UNCHANGED syncvars

InitCalc ==
    /\ store \in CalcTables
    /\ klines = <<>>
    /\ now = CalcFirstKey + Len(store) * Interval + FirstNow
    /\ pc = [r \in Runs |-> "idle"]
    /\ row = [r \in Runs |-> NULL]
    /\ start_ms = [r \in Runs |-> NULL]
    /\ server_ms = [r \in Runs |-> NULL]
    /\ end_ms = [r \in Runs |-> NULL]
    /\ records = [r \in Runs |-> <<>>]
    /\ result = [r \in Runs |-> "none"]
    /\ log = [r \in Runs |-> <<>>]
    /\ quiet = [r \in Runs |-> FALSE]
    /\ solo = [r \in Runs |-> FALSE]
    /\ prev = NoPrev
    /\ normal = TRUE
    /\ summary = [r \in Runs |-> NULL]
    /\ written = [r \in Runs |-> 0]
    /\ alone = [r \in Runs |-> FALSE]
    /\ calc = CalcIdle

NextCalc ==
    \/ \E from \in CalcTimes, to \in CalcTimes, window \in 1..MaxWindow,
          order \in ScanOrders : CalcQuery(from, to, window, order)
    \/ CalcRolling
    \/ CalcDescribe

SpecCalc == InitCalc /\ [][NextCalc]_vars

TypeOK ==
    /\ \A r \in Runs : pc[r] \in {"idle", "server_time", "klines", "insert", "done"}
    /\ now \in FirstNow..MaxNow

\* ------------------------------------------------------------------------
\* Properties
\* ------------------------------------------------------------------------
Range(seq) == { seq[i] : i \in 1..Len(seq) }

Keys(table) == { table[i].open_time_ms : i \in 1..Len(table) }

RowsWithKey(table, k) == { i \in 1..Len(table) : table[i].open_time_ms = k }

GreatestKey(table) == CHOOSE k \in Keys(table) : \A o \in Keys(table) : o <= k

LeastKey(table) == CHOOSE k \in Keys(table) : \A o \in Keys(table) : k <= o

\* the invocation r takes the step that completes collaborator call `call`
Completes(r, call) == log'[r] = Append(log[r], call)

\* C1: the store never holds two rows with the same open_time_ms
C1_NoDuplicateKeys ==
    \A k \in Keys(store) : Cardinality(RowsWithKey(store, k)) = 1

\* an invocation has inserted a batch that holds one key twice, and another
\* invocation has inserted a batch with that key as well
C1_Witness ==
    \E r \in Runs : \E q \in Runs \ {r} :
        /\ result[r] = "inserted"
        /\ result[q] = "inserted"
        /\ \E i, j \in 1..Len(records[r]) :
              /\ i < j
              /\ records[r][i].open_time_ms = records[r][j].open_time_ms
              /\ records[r][i].open_time_ms \in Keys(records[q])

\* C2: an invocation that runs alone, right after a normally completed one,
\* while the exchange offers nothing new since that one read the server
\* time, ends with the store exactly as the first one left it
C2_Idempotent ==
    [][\A r \in Runs :
          (InFlight(r) /\ pc'[r] = "done" /\ solo[r] /\ prev.valid)
              => store' = prev.store]_vars

\* a second invocation in such a succession has ended, over a non-empty store
C2_Witness ==
    \E r \in Runs :
        /\ pc[r] = "done"
        /\ solo[r]
        /\ result[r] \in {"no_new_data", "no_data"}
        /\ Len(store) >= 2

C4_MonotonicContinuation ==
    [][\A r \in Runs :
          (Completes(r, "max_key") /\ store # <<>>)
              => start_ms'[r] = GreatestKey(store) + 60000]_vars

\* an invocation has computed its start_ms from a stored maximum
C4_Witness ==
    \E r \in Runs :
        /\ log[r] # <<>>
        /\ row[r] # NULL
        /\ Len(store) >= 2

\* C5: the start_ms an invocation computes is the epoch floor exactly when
\* the store is empty at that moment
C5_FloorOnEmptyStore ==
    [][\A r \in Runs :
          Completes(r, "max_key") => (start_ms'[r] = EpochFloor <=> store = <<>>)]_vars

\* an invocation has computed its start_ms over the empty store
C5_Witness ==
    \E r \in Runs :
        /\ log[r] # <<>>
        /\ row[r] = NULL
        /\ start_ms[r] = EpochFloor

\* C6: an invocation whose start_ms >= end_ms returns "no new data" at the
\* server-time step, with the store unchanged and no fetch and no insert made
C6_NoOpWhenCaughtUp ==
    [][\A r \in Runs :
          (Completes(r, "server_time") /\ start_ms[r] >= end_ms'[r])
              => /\ pc'[r] = "done"
                 /\ result'[r] = "no_new_data"
                 /\ store' = store
                 /\ log'[r] = <<"max_key", "server_time">>]_vars

\* an invocation over a non-empty store has found start_ms >= end_ms
C6_Witness ==
    \E r \in Runs :
        /\ result[r] = "no_new_data"
        /\ row[r] # NULL
        /\ start_ms[r] >= end_ms[r]

\* C7: the step in which an exchange call fails ends the invocation with an
\* error and leaves the store unchanged, that invocation has made no insert,
\* and every step that changes the store is the insert of an invocation that
\* has completed both exchange calls and holds its normalized records
C7_ExchangeFailureWritesNothing ==
    [][/\ \A r \in Runs :
            (InFlight(r) /\ result'[r] \in {"error_server_time", "error_klines"})
                => /\ pc'[r] = "done"
                   /\ store' = store
                   /\ "insert" \notin Range(log'[r])
       /\ store' # store
            => \E r \in Runs :
                  /\ log[r] = <<"max_key", "server_time", "klines">>
                  /\ Completes(r, "insert")
                  /\ records[r] # <<>>
                  /\ store' = ExecuteMany(store, records[r])]_vars

\* a candle fetch has failed although the exchange held rows of the window
C7_Witness ==
    \E r \in Runs :
        /\ result[r] = "error_klines"
        /\ GetHistoricalKlines(klines, start_ms[r], end_ms[r]) # <<>>

\* both invocations read the same maximum key and then both inserted
\* batches that share a key
Overlapped ==
    /\ \A r \in Runs : result[r] = "inserted"
    /\ row[1] = row[2]
    /\ Keys(records[1]) \cap Keys(records[2]) # {}

\* C8 as stated: after two overlapping invocations the store contains every
\* row either of them submitted
C8_EverySubmittedRowStored ==
    Overlapped =>
        \A r \in Runs : \A i \in 1..Len(records[r]) :
            \E j \in 1..Len(store) : store[j] = records[r][i]

\* C8 as amended: under every interleaving no key is stored twice, no stored
\* row is changed or removed, and after an insert the store holds a row for
\* every key of the inserted batch
C8_OverlapSafe ==
    [][/\ \A k \in Keys(store') : Cardinality(RowsWithKey(store', k)) = 1
       /\ \A i \in 1..Len(store) : \E j \in 1..Len(store') : store'[j] = store[i]
       /\ \A r \in Runs :
            result'[r] = "inserted" => Keys(records'[r]) \subseteq Keys(store')]_vars

\* two overlapping invocations have inserted batches that share a key, and
\* one of them came second with more rows than were already stored
C8_Witness ==
    /\ Overlapped
    /\ \E r \in Runs : Len(records[r]) >= 2

\* C9: while every fetch has returned the whole requested window, the stored
\* keys are exactly first_key, first_key + 60000, ..., max_key, and every
\* invocation that read a maximum key starts one interval after it
C9_NoGaps ==
    normal =>
        /\ \A k \in CandleTimes :
              (store # <<>> /\ LeastKey(store) <= k /\ k <= GreatestKey(store))
                  => k \in Keys(store)
        /\ \A k \in Keys(store) : (k - LeastKey(store)) % 60000 = 0
        /\ \A r \in Runs :
              (log[r] # <<>> /\ row[r] # NULL) => start_ms[r] = row[r][1] + 60000

\* under such operation a later invocation has extended the stored series
C9_Witness ==
    /\ normal
    /\ Len(store) >= 2
    /\ \E r \in Runs : result[r] = "inserted" /\ row[r] # NULL

\* C10: a fetch that returns no rows ends the invocation with "no data" (not
\* an error), although start_ms < end_ms, with the store unchanged and no
\* insert made
C10_EmptyFetchIsNoOp ==
    [][\A r \in Runs :
          (Completes(r, "klines")
             /\ GetHistoricalKlines(klines, start_ms[r], end_ms[r]) = <<>>)
              => /\ start_ms[r] < end_ms[r]
                 /\ pc'[r] = "done"
                 /\ result'[r] = "no_data"
                 /\ store' = store
                 /\ log'[r] = <<"max_key", "server_time", "klines">>]_vars

\* a fetch over a non-empty window has returned no rows
C10_Witness ==
    \E r \in Runs :
        /\ result[r] = "no_data"
        /\ start_ms[r] < end_ms[r]

\* the columns line 98 converts
NumericColumns == {"open", "high", "low", "close", "volume"}

IsNumericText(text) == Len(text) >= 1 /\ Range(text) \subseteq Digits

RECURSIVE Pow10(_)
Pow10(n) == IF n = 0 THEN 1 ELSE 10 * Pow10(n - 1)

RECURSIVE PlaceValueSum(_, _)
PlaceValueSum(text, i) ==
    IF i > Len(text) THEN 0
    ELSE DigitVal(text[i]) * Pow10(Len(text) - i) + PlaceValueSum(text, i + 1)

\* C11: every fetched raw row becomes one record, in order, with its key
\* unchanged, each numeric column holding the number its text denotes or
\* null when the text is not numeric; and the insert stores every record
\* whose key is neither stored already nor carried by an earlier record of
\* the batch, exactly as normalized
C11_BadFieldBecomesNull ==
    [][\A r \in Runs :
          /\ Completes(r, "klines") =>
                LET raw == GetHistoricalKlines(klines, start_ms[r], end_ms[r])
                IN  raw # <<>> =>
                      /\ pc'[r] = "insert"
                      /\ Len(records'[r]) = Len(raw)
                      /\ \A i \in 1..Len(raw) :
                            /\ records'[r][i].open_time_ms = raw[i].open_time
                            /\ \A f \in NumericColumns :
                                  records'[r][i][f] =
                                      IF IsNumericText(raw[i][f])
                                      THEN <<PlaceValueSum(raw[i][f], 1)>>
                                      ELSE NULL
          /\ Completes(r, "insert") =>
                \A i \in 1..Len(records[r]) :
                    (/\ records[r][i].open_time_ms \notin Keys(store)
                     /\ \A j \in 1..(i - 1) :
                           records[r][j].open_time_ms # records[r][i].open_time_ms)
                        => records[r][i] \in Range(store')]_vars

\* an inserted batch held a row with a non-numeric close beside a clean row,
\* and both are stored, the first with a null close and its other fields set
C11_Witness ==
    \E r \in Runs :
        /\ result[r] = "inserted"
        /\ \E i, j \in 1..Len(records[r]) :
              /\ records[r][i].close = NULL
              /\ records[r][i].open = <<11>>
              /\ records[r][i].volume = <<3>>
              /\ records[r][j].close = <<12>>
              /\ records[r][i] \in Range(store)
              /\ records[r][j] \in Range(store)

\* ------------------------------------------------------------------------
\* Properties of calculate_target_percentiles
\* ------------------------------------------------------------------------
\* the minute a formatted open_time denotes, counted from 2017-01-01 00:00
MinuteOf(t) == (t[1] * 24 + t[2]) * 60 + t[3]

\* the stored rows whose open_time lies in the bounds of the call
Selected ==
    { i \in 1..Len(store) :
        /\ MinuteOf(calc.from) <= MinuteOf(store[i].open_time)
        /\ MinuteOf(store[i].open_time) <= MinuteOf(calc.to) }

\* C12: a call whose range holds no stored row, in particular one with
\* from_time > to_time, ends with the empty-range error at the query, and a
\* call that gets further or returns a table has a stored row in range
C12_EmptyRangeFails ==
    calc.pc # "idle" =>
        /\ Selected = {} => (calc.pc = "done" /\ calc.outcome = "error_empty")
        /\ Selected # {} => calc.outcome # "error_empty"
        /\ MinuteOf(calc.from) > MinuteOf(calc.to) => calc.outcome = "error_empty"

\* a call over a non-empty table has failed on a range with from <= to that
\* holds no row
C12_Witness ==
    /\ calc.outcome = "error_empty"
    /\ store # <<>>
    /\ MinuteOf(calc.from) <= MinuteOf(calc.to)

\* the close column of the rows the call read
ReadCloses == [i \in 1..Len(calc.df) |-> calc.df[i].close]

\* the rows of the trailing window of row i (rows are counted from 1)
WindowOf(i) == { j \in 1..i : j >= i - calc.window + 1 }

WorkedExample ==
    /\ ReadCloses = << <<10>>, <<12>>, <<11>>, <<15>>, <<9>> >>
    /\ calc.window = 3

C15_ReadInTimeOrder ==
    calc.pc # "idle" =>
        \A i, j \in 1..Len(calc.df) :
            i < j => MinuteOf(calc.df[i].open_time) < MinuteOf(calc.df[j].open_time)

\* ------------------------------------------------------------------------
\* Further properties of sync_data
\* ------------------------------------------------------------------------
\* C14: the count a run reports is the number of records it submitted, also
\* when every submitted key is already stored and the insert writes nothing
C14_CountIsRowsSubmitted ==
    [][\A r \in Runs :
          Completes(r, "insert") =>
              /\ summary'[r] # NULL
              /\ summary'[r][1].count = Len(records[r])
              /\ Keys(records[r]) \subseteq Keys(store) =>
                    (store' = store /\ summary'[r][1].count >= 1)]_vars

\* a run has reported a positive count although its insert wrote no row
C14_Witness ==
    \E r \in Runs :
        /\ result[r] = "inserted"
        /\ summary[r] # NULL
        /\ summary[r][1].count >= 1
        /\ written[r] = 0

\* the orders in which a batch can be handed to the insert
Reorderings(recs) ==
    { [i \in 1..Len(recs) |-> recs[f[i]]] : f \in Permutations(1..Len(recs)) }

\* no two records of the batch have the same key and differ in a field
KeyDeterminesRecord(recs) ==
    \A i, j \in 1..Len(recs) :
        recs[i].open_time_ms = recs[j].open_time_ms => recs[i] = recs[j]

\* C16 as stated: whatever the order of the batch, the insert leaves the
\* same rows in the store
C16_AnyOrderSameRows ==
    \A r \in Runs :
        pc[r] = "insert" =>
            \A other \in Reorderings(records[r]) :
                Range(ExecuteMany(store, other)) = Range(ExecuteMany(store, records[r]))

\* C16 as amended: whatever the order of the batch, the insert leaves the
\* same keys in the store, and the same rows when no two records of the
\* batch share a key and differ in a field
C16_AnyOrderSameKeys ==
    \A r \in Runs :
        pc[r] = "insert" =>
            \A other \in Reorderings(records[r]) :
                /\ Keys(ExecuteMany(store, other)) = Keys(ExecuteMany(store, records[r]))
                /\ KeyDeterminesRecord(records[r]) =>
                      Range(ExecuteMany(store, other))
                          = Range(ExecuteMany(store, records[r]))

\* a batch of two keys is about to be inserted into a non-empty store
C16_Witness ==
    \E r \in Runs :
        /\ pc[r] = "insert"
        /\ store # <<>>
        /\ Cardinality(Keys(records[r])) >= 2
        /\ KeyDeterminesRecord(records[r])

\* C17: end_ms is the server time minus its remainder modulo 60000: a
\* multiple of 60000 with end_ms <= server_ms < end_ms + 60000; the minute
\* that is open at server_ms is outside [start_ms, end_ms), and every
\* fetched candle had closed by server_ms
C17_EndIsFlooredServerTime ==
    \A r \in Runs :
        "server_time" \in Range(log[r]) =>
            /\ end_ms[r] = server_ms[r] - (server_ms[r] % 60000)
            /\ end_ms[r] % 60000 = 0
            /\ end_ms[r] <= server_ms[r]
            /\ server_ms[r] < end_ms[r] + 60000
            /\ \A k \in CandleTimes :
                  (k <= server_ms[r] /\ server_ms[r] < k + 60000)
                      => ~(start_ms[r] <= k /\ k < end_ms[r])
            /\ \A i \in 1..Len(records[r]) :
                  records[r][i].open_time_ms + 60000 <= server_ms[r]

\* a run has inserted while the exchange held the candle of the minute that
\* was open at its server time, which began before that time
C17_Witness ==
    \E r \in Runs :
        /\ result[r] = "inserted"
        /\ server_ms[r] % 60000 # 0
        /\ \E i \in 1..Len(klines) : klines[i].open_time = end_ms[r]

\* C18: every step that changes the store is the insert of one run and adds
\* a row for each key of its batch at once, so a read of the store between
\* steps sees none or all of them; an insert that fails changes nothing
C18_MergeIsAtomic ==
    [][/\ store' # store =>
             \E r \in Runs :
                 /\ pc[r] = "insert"
                 /\ pc'[r] = "done"
                 /\ result'[r] = "inserted"
                 /\ Keys(store') = Keys(store) \cup Keys(records[r])
       /\ \A r \in Runs :
             (pc[r] = "insert" /\ result'[r] = "error_store") => store' = store]_vars

\* a run has added two rows while the other run, still in flight, had read
\* the same maximum key as it, that is, none of those rows
C18_Witness ==
    \E r \in Runs : \E q \in Runs \ {r} :
        /\ result[r] = "inserted"
        /\ written[r] >= 2
        /\ InFlight(q)
        /\ row[q] = row[r]

\* C19 as stated: a run that had no other run beside it never has a row
\* skipped: it reports as many rows as its insert wrote
C19_CountIsRowsWritten ==
    \A r \in Runs :
        (result[r] = "inserted" /\ alone[r]) => summary[r][1].count = written[r]

\* C19 as amended: when a run with no other run beside it inserts, every
\* submitted key is greater than every stored key, the insert writes one row
\* for each distinct key of the batch, and the reported count is the number
\* of rows written when no key occurs twice in the batch
C19_NewKeysOnly ==
    [][\A r \in Runs :
          (Completes(r, "insert") /\ alone[r]) =>
              /\ \A k \in Keys(records[r]) : \A o \in Keys(store) : o < k
              /\ Len(store') - Len(store) = Cardinality(Keys(records[r]))
              /\ Cardinality(Keys(records[r])) = Len(records[r]) =>
                    summary'[r][1].count = Len(store') - Len(store)]_vars

\* such a run has extended a non-empty store and reported what it wrote
C19_Witness ==
    \E r \in Runs :
        /\ result[r] = "inserted"
        /\ alone[r]
        /\ row[r] # NULL
        /\ written[r] >= 1
        /\ summary[r][1].count = written[r]

====
